---------------------------- MODULE Spec2Model ----------------------------
(***************************************************************************)
(* A model of mnt-rs' mountinfo module (src/src/mountinfo.rs): the line    *)
(* parser MountInfoEntry::from_str, the stream iterator MountInfoIter, the *)
(* queries get_submounts_from / get_mount_from and the overlap resolution  *)
(* VecMountEntry::remove_overlaps.                                         *)
(*                                                                         *)
(* Text is modelled as it is: a string is a sequence of one-character      *)
(* strings, a path is the string the entry stores, and two paths are       *)
(* compared as std::path does, by their components.                        *)
(***************************************************************************)
EXTENDS Integers, Sequences, FiniteSets, TLC

VARIABLES
    pc,             \* position of the running call: "start", "loop", "done", "panic"
    op,             \* the function that was called
    written,        \* what the input text was written from (tokens, path names)
    line,           \* from_str: the input line
    stream,         \* the queries: the items the line source yields, in order
    nb,             \* MountInfoIter: how many items were pulled from the source
    arg,            \* the queries: root (get_submounts_from) or target (get_mount_from)
    mounts,         \* remove_overlaps: self, the input list
    exclude_files,  \* remove_overlaps: the exclusion list
    idx,            \* remove_overlaps: how many entries of the reversed input were visited
    sorted,         \* remove_overlaps: the accumulator
    pass,           \* remove_overlaps: 1 on the input, 2 on its own output
    first,          \* remove_overlaps: the input and the output of the first pass
    ret             \* the running answer, and the returned value once pc = "done"

vars == <<pc, op, written, line, stream, nb, arg, mounts, exclude_files, idx,
          sorted, pass, first, ret>>

-----------------------------------------------------------------------------
(* Sequences *)

RECURSIVE Reverse(_)
Reverse(s) == IF s = <<>> THEN <<>> ELSE Append(Reverse(Tail(s)), Head(s))

RECURSIVE Flatten(_)
Flatten(ss) == IF ss = <<>> THEN <<>> ELSE Head(ss) \o Flatten(Tail(ss))

IsPrefix(p, s) == Len(p) <= Len(s) /\ SubSeq(s, 1, Len(p)) = p

SeqsUpTo(S, n) == UNION {[1..k -> S] : k \in 0..n}

NoneOpt == <<>>
SomeOpt(v) == <<v>>

-----------------------------------------------------------------------------
(* Strings: str::trim, str::split_terminator, str::splitn(2, ..) *)

WhiteSpace == {" ", "\t", "\n", "\r"}

RECURSIVE TrimStart(_)
TrimStart(s) ==
    IF s # <<>> /\ Head(s) \in WhiteSpace THEN TrimStart(Tail(s)) ELSE s

trim(s) == Reverse(TrimStart(Reverse(TrimStart(s))))

\* str::split on the characters of seps: every piece, the empty ones included.
RECURSIVE SplitAcc(_, _, _)
SplitAcc(s, seps, cur) ==
    IF s = <<>> THEN <<cur>>
    ELSE IF Head(s) \in seps
         THEN <<cur>> \o SplitAcc(Tail(s), seps, <<>>)
         ELSE SplitAcc(Tail(s), seps, Append(cur, Head(s)))

\* str::split_terminator: as split, without a trailing empty piece.
split_terminator(s, seps) ==
    LET all == SplitAcc(s, seps, <<>>)
    IN  IF all[Len(all)] = <<>> THEN SubSeq(all, 1, Len(all) - 1) ELSE all

\* str::splitn(2, ":"): the text before the first colon and, when there is a
\* colon, the text after it.
RECURSIVE BeforeColon(_)
BeforeColon(s) ==
    IF s = <<>> \/ Head(s) = ":" THEN <<>> ELSE <<Head(s)>> \o BeforeColon(Tail(s))

splitn2(s) ==
    LET a == BeforeColon(s)
    IN  IF Len(a) = Len(s) THEN <<a>> ELSE <<a, SubSeq(s, Len(a) + 2, Len(s))>>

\* a variant: the empty pieces between two separators are kept
KeepEmptyTokens(line0) == split_terminator(line0, {" ", "\t"})

\* line.split_terminator(|s| s == ' ' || s == '\t').filter(|s| s != &"")
Tokens(line0) ==
    SelectSeq(split_terminator(line0, {" ", "\t"}), LAMBDA t : t # <<>>)

-----------------------------------------------------------------------------
(* Numbers: str::parse::<i32>() and str::parse::<u32>().  A parsed number   *)
(* is kept as its canonical decimal text (no sign for a non-negative one,   *)
(* no leading zero), so that every value of the 32-bit types has one.       *)

Digits == {"0", "1", "2", "3", "4", "5", "6", "7", "8", "9"}

DigitVal(c) ==
    CASE c = "0" -> 0 [] c = "1" -> 1 [] c = "2" -> 2 [] c = "3" -> 3
      [] c = "4" -> 4 [] c = "5" -> 5 [] c = "6" -> 6 [] c = "7" -> 7
      [] c = "8" -> 8 [] c = "9" -> 9

I32_MAX_TEXT == <<"2", "1", "4", "7", "4", "8", "3", "6", "4", "7">>
I32_MIN_TEXT == <<"2", "1", "4", "7", "4", "8", "3", "6", "4", "8">>
U32_MAX_TEXT == <<"4", "2", "9", "4", "9", "6", "7", "2", "9", "5">>

RECURSIVE StripZeros(_)
StripZeros(d) ==
    IF Len(d) > 1 /\ Head(d) = "0" THEN StripZeros(Tail(d)) ELSE d

\* a <= b for two digit texts without leading zeros
RECURSIVE DigitsLeq(_, _)
DigitsLeq(a, b) ==
    IF Len(a) # Len(b) THEN Len(a) < Len(b)
    ELSE IF a = <<>> THEN TRUE
    ELSE IF Head(a) # Head(b) THEN DigitVal(Head(a)) < DigitVal(Head(b))
    ELSE DigitsLeq(Tail(a), Tail(b))

AllDigits(d) == d # <<>> /\ \A i \in 1..Len(d) : d[i] \in Digits

NumOk(v) == [ok |-> TRUE, val |-> v]
NumErr == [ok |-> FALSE]

parse_i32(s) ==
    LET neg == s # <<>> /\ Head(s) = "-"
        d   == IF s # <<>> /\ Head(s) \in {"+", "-"} THEN Tail(s) ELSE s
        c   == StripZeros(d)
    IN  IF ~AllDigits(d) THEN NumErr
        ELSE IF neg
             THEN IF DigitsLeq(c, I32_MIN_TEXT)
                  THEN NumOk(IF c = <<"0">> THEN c ELSE <<"-">> \o c)
                  ELSE NumErr
             ELSE IF DigitsLeq(c, I32_MAX_TEXT) THEN NumOk(c) ELSE NumErr

parse_u32(s) ==
    LET d == IF s # <<>> /\ Head(s) = "+" THEN Tail(s) ELSE s
        c == StripZeros(d)
    IN  IF ~AllDigits(d) THEN NumErr
        ELSE IF DigitsLeq(c, U32_MAX_TEXT) THEN NumOk(c) ELSE NumErr

-----------------------------------------------------------------------------
(* Paths: std::path::Path::components, ==, starts_with *)

RootDir == <<"/">>
CurDir == <<".">>

has_root(p) == p # <<>> /\ Head(p) = "/"

components(p) ==
    LET segs   == SplitAcc(p, {"/"}, <<>>)
        normal == SelectSeq(segs, LAMBDA c : c # <<>> /\ c # CurDir)
    IN  IF has_root(p) THEN <<RootDir>> \o normal
        ELSE IF Head(segs) = CurDir THEN <<CurDir>> \o normal
        ELSE normal

path_eq(p, q) == components(p) = components(q)

\* a variant: base is a prefix of p as text
StringPrefix(p, base) == IsPrefix(base, p)

\* p.starts_with(base): base's components are the first components of p
starts_with(p, base) == IsPrefix(components(base), components(p))

-----------------------------------------------------------------------------
(* MntOps::from_str: one option token to one MntOps value; it never fails.  *)

MntOp(name, on) == [variant |-> name, on |-> on]
ExtraOp(tok) == [variant |-> "Extra", text |-> tok]

MntOpsTable ==
    {<< <<"a","t","i","m","e">>, MntOp("Atime", TRUE) >>,
     << <<"n","o","a","t","i","m","e">>, MntOp("Atime", FALSE) >>,
     << <<"d","i","r","a","t","i","m","e">>, MntOp("DirAtime", TRUE) >>,
     << <<"n","o","d","i","r","a","t","i","m","e">>, MntOp("DirAtime", FALSE) >>,
     << <<"r","e","l","a","t","i","m","e">>, MntOp("RelAtime", TRUE) >>,
     << <<"n","o","r","e","l","a","t","i","m","e">>, MntOp("RelAtime", FALSE) >>,
     << <<"d","e","v">>, MntOp("Dev", TRUE) >>,
     << <<"n","o","d","e","v">>, MntOp("Dev", FALSE) >>,
     << <<"e","x","e","c">>, MntOp("Exec", TRUE) >>,
     << <<"n","o","e","x","e","c">>, MntOp("Exec", FALSE) >>,
     << <<"s","u","i","d">>, MntOp("Suid", TRUE) >>,
     << <<"n","o","s","u","i","d">>, MntOp("Suid", FALSE) >>,
     << <<"r","w">>, MntOp("Write", TRUE) >>,
     << <<"r","o">>, MntOp("Write", FALSE) >>}

MntOps_from_str(tok) ==
    IF \E e \in MntOpsTable : e[1] = tok
    THEN (CHOOSE e \in MntOpsTable : e[1] = tok)[2]
    ELSE ExtraOp(tok)

-----------------------------------------------------------------------------
(* MountInfoEntry::from_str *)

LineErr(variant) == [variant |-> variant]

Ok(v) == [kind |-> "Ok", val |-> v]
Err(e) == [kind |-> "Err", err |-> e]
\* A panic of the thread: an unwrap() of None or of an Err.
Panic(at, tok) == [kind |-> "Panic", at |-> at, text |-> tok]

\* .parse().unwrap() and spl.next().unwrap() on a token that has no value
Unwrap(at, tok) == Panic(at, tok)

\* a variant: a tag already in the map keeps its value
InsertFirstWins(m, tag, val) ==
    [x \in (DOMAIN m) \cup {tag} |-> IF x \in DOMAIN m THEN m[x] ELSE val]

\* HashMap::insert
insert(m, tag, val) ==
    [x \in (DOMAIN m) \cup {tag} |-> IF x = tag THEN val ELSE m[x]]

\* a variant: the end of the tokens ends the loop as the "-" token does
RECURSIVE SeparatorOptional(_, _)
SeparatorOptional(rest, m) ==
    IF rest = <<>> THEN [found |-> TRUE, map |-> m, rest |-> <<>>]
    ELSE LET optional == Head(rest)
         IN  IF optional = <<"-">> THEN [found |-> TRUE, map |-> m, rest |-> Tail(rest)]
             ELSE IF \E i \in 1..Len(optional) : optional[i] = ":"
                  THEN LET spl == splitn2(optional)
                       IN  SeparatorOptional(Tail(rest), insert(m, spl[1], SomeOpt(spl[2])))
                  ELSE SeparatorOptional(Tail(rest), insert(m, optional, NoneOpt))

\* The loop of lines 107-121 over the tokens that follow mntops, up to the
\* "-" token.  rest is what the loop has not read yet.
RECURSIVE OptionalsLoop(_, _)
OptionalsLoop(rest, m) ==
    IF rest = <<>> THEN [found |-> FALSE]
    ELSE LET optional == Head(rest)
         IN  IF optional = <<"-">> THEN [found |-> TRUE, map |-> m, rest |-> Tail(rest)]
             ELSE IF \E i \in 1..Len(optional) : optional[i] = ":"
                  THEN LET spl == splitn2(optional)
                       IN  OptionalsLoop(Tail(rest), insert(m, spl[1], SomeOpt(spl[2])))
                  ELSE OptionalsLoop(Tail(rest), insert(m, optional, NoneOpt))

EmptyMap == [x \in {} |-> NoneOpt]

SeqToSet(s) == {s[i] : i \in 1..Len(s)}

\* The fields after the "-" separator (lines 123-145).
Trailer(id, parent_id, major, minor, root, file, mntops, optionals, rest) ==
    IF Len(rest) < 1 THEN Err(LineErr("MissingVfstype"))
    ELSE IF Len(rest) < 2 THEN Err(LineErr("MissingSpec"))
    ELSE IF Len(rest) < 3 THEN Err(LineErr("MissingSuperOptions"))
    ELSE Ok([id            |-> id,
             parent_id     |-> parent_id,
             major         |-> major,
             minor         |-> minor,
             root          |-> root,
             file          |-> file,
             mntops        |-> mntops,
             optionals     |-> optionals,
             vfstype       |-> rest[1],
             spec          |-> IF rest[2] = <<"n", "o", "n", "e">>
                               THEN NoneOpt ELSE SomeOpt(rest[2]),
             super_options |-> SeqToSet(split_terminator(rest[3], {","}))])

\* The fields from root on (lines 99-121).
AfterMajMin(id, parent_id, major, minor, tokens) ==
    IF Len(tokens) < 4 THEN Err(LineErr("MissingRoot"))
    ELSE IF Len(tokens) < 5 THEN Err(LineErr("MissingFile"))
    ELSE IF Len(tokens) < 6 THEN Err(LineErr("MissingMntops"))
    ELSE LET ops    == split_terminator(tokens[6], {","})
             mntops == [i \in 1..Len(ops) |-> MntOps_from_str(ops[i])]
             opt    == OptionalsLoop(SubSeq(tokens, 7, Len(tokens)), EmptyMap)
         IN  IF ~opt.found THEN Err(LineErr("MissingOptional"))
             ELSE Trailer(id, parent_id, major, minor, tokens[4], tokens[5],
                          mntops, opt.map, opt.rest)

\* The major:minor token (lines 92-98).
MajMin(id, parent_id, tokens) ==
    IF Len(tokens) < 3 THEN Err(LineErr("MissingMajMin"))
    ELSE LET majmin == tokens[3]
             spl    == splitn2(majmin)
         IN  IF Len(spl) < 2 THEN Unwrap("InvalidMajMin", majmin)
             ELSE LET maj == parse_u32(spl[1])
                      min == parse_u32(spl[2])
                  IN  IF ~maj.ok \/ ~min.ok THEN Unwrap("InvalidMajMin", majmin)
                      ELSE AfterMajMin(id, parent_id, maj.val, min.val, tokens)

from_str(line0) ==
    LET tokens == Tokens(trim(line0))
    IN  IF Len(tokens) < 1 THEN Err(LineErr("MissingId"))
        ELSE LET id == parse_i32(tokens[1])
             IN  IF ~id.ok THEN Unwrap("InvalidId", tokens[1])
                 ELSE IF Len(tokens) < 2 THEN Err(LineErr("MissingParentId"))
                 ELSE LET parent_id == parse_i32(tokens[2])
                      IN  IF ~parent_id.ok THEN Unwrap("InvalidParentId", tokens[2])
                          ELSE MajMin(id.val, parent_id.val, tokens)

-----------------------------------------------------------------------------
(* The lines from_str is applied to: the lines written from one choice per  *)
(* field and their truncations, the fields separated and surrounded by      *)
(* spaces and tabs.                                                         *)

MaxOptionals == 2

GoodIds == {<<"2", "0">>, <<"-", "1">>}
BadIds == {<<"x">>, <<"2", "1", "4", "7", "4", "8", "3", "6", "4", "8">>}
GoodParentIds == {<<"6", "6">>}
BadParentIds == {<<"1", "x">>}
GoodMajMins == {<<"0", ":", "2", "0">>, <<"2", "5", "3", ":", "4", "2", "9", "4", "9", "6", "7", "2", "9", "5">>}
BadMajMins == {<<"1", "2", "3">>, <<"0", ":", "x">>, <<"4", "2", "9", "4", "9", "6", "7", "2", "9", "6", ":", "1">>}
RootTokens == {<<"/">>}
FileTokens == {<<"/", "s", "y", "s">>}
MntopsTokens == {<<"r", "w", ",", "n", "o", "s", "u", "i", "d", ",", "f", "o", "o", ",">>}
OptionalTokens == {<<"s", "h", "a", "r", "e", "d", ":", "2">>, <<"s", "h", "a", "r", "e", "d", ":", "3", ":", "4">>, <<"u", "n", "b", "i", "n", "d", "a", "b", "l", "e">>}
Separator == <<"-">>
VfstypeTokens == {<<"s", "y", "s", "f", "s">>}
SpecTokens == {<<"s", "y", "s", "f", "s">>, <<"n", "o", "n", "e">>}
SuperTokens == {<<"r", "w", ",", "s", "e", "c", "l", "a", "b", "e", "l", ",", "r", "w">>}
TrailingTokens == {<<>>, <<<<"x">>>>}

FullFields ==
    {<<i, p, mm, r, f, mo>> \o opts \o <<Separator, v, sp, su>> \o tr :
        i \in GoodIds \cup BadIds, p \in GoodParentIds \cup BadParentIds,
        mm \in GoodMajMins \cup BadMajMins, r \in RootTokens, f \in FileTokens,
        mo \in MntopsTokens, opts \in SeqsUpTo(OptionalTokens, MaxOptionals),
        v \in VfstypeTokens, sp \in SpecTokens, su \in SuperTokens,
        tr \in TrailingTokens}

\* Every line cut after its k-th token, the whole lines included.
Truncations ==
    UNION {{SubSeq(fl, 1, k) : k \in 0..Len(fl)} : fl \in FullFields}

\* How the tokens are laid out on the line: what precedes the first, what
\* separates two, what follows the last.
Layouts ==
    {[lead |-> <<>>, sep |-> <<" ">>, trail |-> <<>>],
     [lead |-> <<" ", "\t">>, sep |-> <<"\t", " ">>, trail |-> <<" ">>]}

RECURSIVE Join(_, _)
Join(toks, sep) ==
    IF toks = <<>> THEN <<>>
    ELSE IF Len(toks) = 1 THEN toks[1]
    ELSE toks[1] \o sep \o Join(Tail(toks), sep)

WriteLine(toks, layout) == layout.lead \o Join(toks, layout.sep) \o layout.trail

Idle == "-"

InitParse ==
    /\ pc = "start"
    /\ op = "from_str"
    /\ written \in Truncations
    /\ \E layout \in Layouts : line = WriteLine(written, layout)
    /\ stream = <<>> /\ nb = 0 /\ arg = <<>>
    /\ mounts = <<>> /\ exclude_files = <<>> /\ idx = 0 /\ sorted = <<>>
    /\ pass = 0 /\ first = <<>>
    /\ ret = Idle

\* One call of MountInfoEntry::from_str(line).
Parse ==
    /\ pc = "start"
    /\ op = "from_str"
    /\ ret' = from_str(line)
    /\ pc' = IF ret'.kind = "Panic" THEN "panic" ELSE "done"
    /\ UNCHANGED <<op, written, line, stream, nb, arg, mounts, exclude_files,
                   idx, sorted, pass, first>>

NextParse == Parse

SpecParse == InitParse /\ [][NextParse]_vars

-----------------------------------------------------------------------------
(* ParseError (src/src/error.rs) and MountInfoIter::next *)

LineErrorDesc(e) ==
    CASE e.variant = "MissingId" -> <<"Missing field: id">>
      [] e.variant = "InvalidId" -> <<"Bad 'id' field value: ", e.text>>
      [] e.variant = "MissingParentId" -> <<"Missing field: parent id">>
      [] e.variant = "InvalidParentId" -> <<"Bad 'parent id' field value: ", e.text>>
      [] e.variant = "MissingMajMin" -> <<"Missing field: maj:min">>
      [] e.variant = "InvalidMajMin" -> <<"Bad 'maj:min' field value: ", e.text>>
      [] e.variant = "MissingRoot" -> <<"Missing field: root">>
      [] e.variant = "MissingFile" -> <<"Missing field: file">>
      [] e.variant = "MissingMntops" -> <<"Missing field: mntops">>
      [] e.variant = "MissingOptional" -> <<"Missing field: optional">>
      [] e.variant = "MissingVfstype" -> <<"Missing field: vfstype">>
      [] e.variant = "MissingSpec" -> <<"Missing field: spec">>
      [] e.variant = "MissingSuperOptions" -> <<"Missing field: superoptions">>

\* impl fmt::Display for LineError
LineErrorDisplay(e) == <<"Line parsing: ">> \o LineErrorDesc(e)

ParseError_new(detail) == [desc |-> <<"Mount parsing: ">> \o detail]

\* impl From<io::Error> for ParseError
ParseError_from_io(err) ==
    ParseError_new(<<"Failed to read the mounts file: ", err>>)

FailedAtLine(n, e) ==
    ParseError_new(<<"Failed at line ", n, ": ">> \o LineErrorDisplay(e))

\* MountInfoIter::next on a source that has yielded n items: None at the
\* end of the source, else Some of the item's result.
MountInfoIter_next(lines, n) ==
    IF n >= Len(lines) THEN NoneOpt
    ELSE LET item == lines[n + 1]
         IN  SomeOpt(IF item.kind = "Ok"
                     THEN LET r == from_str(item.val)
                          IN  IF r.kind = "Err" THEN Err(FailedAtLine(n, r.err))
                              ELSE r
                     ELSE Err(ParseError_from_io(item.err)))

-----------------------------------------------------------------------------
(* get_submounts_from and get_mount_from: one action per turn of the loop *)

\* a variant: a failing line is skipped
submounts_Skip(acc, root, mount) ==
    CASE mount.kind = "Ok" ->
            [pc |-> "loop",
             ret |-> IF starts_with(mount.val.file, root)
                     THEN Append(acc, mount.val) ELSE acc]
      [] mount.kind = "Err" -> [pc |-> "loop", ret |-> acc]
      [] mount.kind = "Panic" -> [pc |-> "panic", ret |-> mount]

\* The body of get_submounts_from's loop on one result of the iterator.
get_submounts_from_body(acc, root, mount) ==
    CASE mount.kind = "Ok" ->
            [pc |-> "loop",
             ret |-> IF starts_with(mount.val.file, root)
                     THEN Append(acc, mount.val) ELSE acc]
      [] mount.kind = "Err" -> [pc |-> "done", ret |-> Err(mount.err)]
      [] mount.kind = "Panic" -> [pc |-> "panic", ret |-> mount]

\* a variant: the first match stays
mount_KeepFirst(acc, target, mount) ==
    CASE mount.kind = "Ok" ->
            [pc |-> "loop",
             ret |-> IF starts_with(target, mount.val.file) /\ acc = NoneOpt
                     THEN SomeOpt(mount.val) ELSE acc]
      [] mount.kind = "Err" -> [pc |-> "done", ret |-> Err(mount.err)]
      [] mount.kind = "Panic" -> [pc |-> "panic", ret |-> mount]

\* a variant: a match replaces the answer only when it is as deep or deeper
mount_KeepDeepest(acc, target, mount) ==
    CASE mount.kind = "Ok" ->
            [pc |-> "loop",
             ret |-> IF /\ starts_with(target, mount.val.file)
                        /\ \/ acc = NoneOpt
                           \/ Len(components(acc[1].file))
                                <= Len(components(mount.val.file))
                     THEN SomeOpt(mount.val) ELSE acc]
      [] mount.kind = "Err" -> [pc |-> "done", ret |-> Err(mount.err)]
      [] mount.kind = "Panic" -> [pc |-> "panic", ret |-> mount]

\* The body of get_mount_from's loop on one result of the iterator.
get_mount_from_body(acc, target, mount) ==
    CASE mount.kind = "Ok" ->
            [pc |-> "loop",
             ret |-> IF starts_with(target, mount.val.file)
                     THEN SomeOpt(mount.val) ELSE acc]
      [] mount.kind = "Err" -> [pc |-> "done", ret |-> Err(mount.err)]
      [] mount.kind = "Panic" -> [pc |-> "panic", ret |-> mount]

QueryFrame == UNCHANGED <<op, written, line, stream, arg, mounts, exclude_files,
                          idx, sorted, pass, first>>

get_submounts_from ==
    /\ pc = "loop"
    /\ op = "get_submounts_from"
    /\ LET mount == MountInfoIter_next(stream, nb)
       IN  IF mount = NoneOpt
           THEN pc' = "done" /\ ret' = Ok(ret) /\ nb' = nb
           ELSE LET b == get_submounts_from_body(ret, arg, mount[1])
                IN  pc' = b.pc /\ ret' = b.ret /\ nb' = nb + 1
    /\ QueryFrame

\* A return of get_mount_from: to its caller's match when get_mount called it
Return(p) == IF p = "done" /\ op = "get_mount_writable" THEN "match" ELSE p

get_mount_from ==
    /\ pc = "loop"
    /\ op \in {"get_mount_from", "get_mount_writable"}
    /\ LET mount == MountInfoIter_next(stream, nb)
       IN  IF mount = NoneOpt
           THEN pc' = Return("done") /\ ret' = Ok(ret) /\ nb' = nb
           ELSE LET b == get_mount_from_body(ret, arg, mount[1])
                IN  pc' = Return(b.pc) /\ ret' = b.ret /\ nb' = nb + 1
    /\ QueryFrame

\* get_mount (lines 196-200): File::open("/proc/self/mountinfo") fails, and
\* try! returns its error, or get_mount_from reads the file.
get_mount ==
    /\ pc = "start"
    /\ op = "get_mount_writable"
    /\ IF written.open
       THEN pc' = "loop" /\ ret' = NoneOpt
       ELSE pc' = "match" /\ ret' = Err(ParseError_from_io("io::Error"))
    /\ nb' = nb
    /\ QueryFrame

\* m.mntops.contains(&o)
contains(mntops, o) == \E i \in 1..Len(mntops) : mntops[i] = o

\* a variant: the mount found is returned whatever its options
match_AnyMount(r, writable) ==
    IF r.kind = "Ok" /\ r.val # NoneOpt THEN SomeOpt(r.val[1]) ELSE NoneOpt

\* The match of lines 208-217 on what get_mount returned
get_mount_writable_match(r, writable) ==
    IF r.kind = "Ok" /\ r.val # NoneOpt
    THEN IF ~writable \/ contains(r.val[1].mntops, MntOp("Write", writable))
         THEN SomeOpt(r.val[1])
         ELSE NoneOpt
    ELSE NoneOpt

get_mount_writable ==
    /\ pc = "match"
    /\ op = "get_mount_writable"
    /\ ret' = get_mount_writable_match(ret, written.writable)
    /\ pc' = "done"
    /\ nb' = nb
    /\ QueryFrame

-----------------------------------------------------------------------------
(* The streams the queries read.  A path is written from its names below   *)
(* the root; the k-th line of a stream has mount id k.                      *)

MaxLines == 3

n_var == <<"v", "a", "r">>
n_tmp == <<"t", "m", "p">>
n_variant == <<"v", "a", "r", "i", "a", "n", "t">>
n_home == <<"h", "o", "m", "e">>
n_alice == <<"a", "l", "i", "c", "e">>
n_etc == <<"e", "t", "c">>

\* "/" for no name, else "/a/b"; with slash, a trailing "/" as well.
PathText(names, slash) ==
    IF names = <<>> THEN <<"/">>
    ELSE Flatten([i \in 1..Len(names) |-> <<"/">> \o names[i]])
            \o (IF slash THEN <<"/">> ELSE <<>>)

P(names) == [names |-> names, slash |-> FALSE]
PSlash(names) == [names |-> names, slash |-> TRUE]
Text(p) == PathText(p.names, p.slash)

DigitText(k) == <<CHOOSE c \in Digits : DigitVal(c) = k>>

MountLineWith(k, names, mntops) ==
    WriteLine(<<DigitText(k), <<"6", "6">>, <<"0", ":", "2", "0">>, <<"/">>, PathText(names, FALSE),
                mntops, Separator, <<"s", "y", "s", "f", "s">>, <<"s", "y", "s", "f", "s">>, <<"r", "w">>>>,
              [lead |-> <<>>, sep |-> <<" ">>, trail |-> <<>>])

MountLine(k, names) == MountLineWith(k, names, <<"r", "w">>)

Mount(names) == [kind |-> "mount", names |-> names]
\* a read-only mount: "ro,nosuid"
MountRo(names) == [kind |-> "mount_ro", names |-> names]
Truncated == [kind |-> "truncated"]
BadId == [kind |-> "bad_id"]
ReadFailure == [kind |-> "io"]

\* The k-th item of the line source, as io::Result<String>.
Item(k, w) ==
    CASE w.kind = "mount" -> Ok(MountLine(k, w.names))
      [] w.kind = "mount_ro" ->
            Ok(MountLineWith(k, w.names, <<"r", "o", ",", "n", "o", "s", "u", "i", "d">>))
      [] w.kind = "truncated" -> Ok(DigitText(k) \o <<" ", "6", "6", " ", "0", ":", "2", "0", " ", "/">>)
      [] w.kind = "bad_id" -> Ok(<<"x">> \o Tail(MountLine(k, <<>>)))
      [] w.kind = "io" -> Err("io::Error")

MountItems == {Mount(<<>>), Mount(<<n_home>>), Truncated, BadId, ReadFailure}
Targets == {P(<<n_home, n_alice>>), P(<<n_etc>>), PSlash(<<n_home>>)}

SubmountItems ==
    {Mount(<<n_var>>), Mount(<<n_var, n_tmp>>), Mount(<<n_variant>>),
     Truncated, ReadFailure}
Roots == {P(<<n_var>>), PSlash(<<n_var>>), P(<<>>)}

InitQuery ==
    /\ pc = "loop"
    /\ \/ /\ op = "get_submounts_from"
          /\ \E r \in Roots, items \in SeqsUpTo(SubmountItems, MaxLines) :
                written = [arg |-> r, items |-> items]
          /\ ret = <<>>
       \/ /\ op = "get_mount_from"
          /\ \E t \in Targets, items \in SeqsUpTo(MountItems, MaxLines) :
                written = [arg |-> t, items |-> items]
          /\ ret = NoneOpt
    /\ arg = Text(written.arg)
    /\ stream = [k \in 1..Len(written.items) |-> Item(k, written.items[k])]
    /\ nb = 0
    /\ line = <<>>
    /\ mounts = <<>> /\ exclude_files = <<>> /\ idx = 0 /\ sorted = <<>>
    /\ pass = 0 /\ first = <<>>

NextQuery == get_submounts_from \/ get_mount_from

SpecQuery == InitQuery /\ [][NextQuery]_vars

\* get_mount_writable reads /proc/self/mountinfo, which the kernel writes:
\* its numeric fields always parse; a line may lack a field (an empty
\* source), a read may fail, the file may not open.
WritableItems ==
    {Mount(<<>>), Mount(<<n_home>>), MountRo(<<n_home>>), Truncated, ReadFailure}

InitWritable ==
    /\ pc = "start"
    /\ op = "get_mount_writable"
    /\ \E t \in Targets, items \in SeqsUpTo(WritableItems, MaxLines),
          w \in BOOLEAN, o \in BOOLEAN :
          written = [arg |-> t, items |-> items, writable |-> w, open |-> o]
    /\ arg = Text(written.arg)
    /\ stream = [k \in 1..Len(written.items) |-> Item(k, written.items[k])]
    /\ nb = 0
    /\ line = <<>>
    /\ mounts = <<>> /\ exclude_files = <<>> /\ idx = 0 /\ sorted = <<>>
    /\ pass = 0 /\ first = <<>>
    /\ ret = Idle

NextWritable == get_mount \/ get_mount_from \/ get_mount_writable

SpecWritable == InitWritable /\ [][NextWritable]_vars

-----------------------------------------------------------------------------
(* A consumer of MountInfoIter that calls next() until it returns None and  *)
(* keeps every result it is given: ret is the results so far, nb the lines  *)
(* the iterator has taken from its source.                                  *)

Iterator_next ==
    /\ pc = "loop"
    /\ op = "next"
    /\ LET mount == MountInfoIter_next(stream, nb)
       IN  IF mount = NoneOpt
           THEN pc' = "done" /\ ret' = ret /\ nb' = nb
           ELSE IF mount[1].kind = "Panic"
                THEN pc' = "panic" /\ ret' = ret /\ nb' = nb + 1
                ELSE pc' = "loop" /\ ret' = Append(ret, mount[1]) /\ nb' = nb + 1
    /\ QueryFrame

InitIter ==
    /\ pc = "loop"
    /\ op = "next"
    /\ \E items \in SeqsUpTo(MountItems, MaxLines) :
          written = [arg |-> P(<<>>), items |-> items]
    /\ arg = <<>>
    /\ stream = [k \in 1..Len(written.items) |-> Item(k, written.items[k])]
    /\ nb = 0
    /\ line = <<>>
    /\ mounts = <<>> /\ exclude_files = <<>> /\ idx = 0 /\ sorted = <<>>
    /\ pass = 0 /\ first = <<>>
    /\ ret = <<>>

NextIter == Iterator_next

SpecIter == InitIter /\ [][NextIter]_vars

-----------------------------------------------------------------------------
(* VecMountEntry::remove_overlaps: one action per turn of the 'list loop *)

\* exclude_files.iter().skip_while(|x| file != x.as_ref())
RECURSIVE skip_while_differs(_, _)
skip_while_differs(exclude, file) ==
    IF exclude # <<>> /\ ~path_eq(file, Head(exclude))
    THEN skip_while_differs(Tail(exclude), file)
    ELSE exclude

\* a variant: exclude_files is not consulted
NeverExcluded(exclude, file) == FALSE

\* a variant: the test is negated
NotInExclude(exclude, file) == skip_while_differs(exclude, file) = <<>>

\* ... .next().is_some(): file is one of the paths of exclude_files
is_excluded(exclude, file) == skip_while_differs(exclude, file) # <<>>

\* The 'filter loop (lines 236-252): has_overlaps once it has run over acc.
RECURSIVE filter_loop(_, _, _)
filter_loop(mount, acc, exclude) ==
    IF acc = <<>> THEN FALSE
    ELSE LET mount_sorted == Head(acc)
         IN  IF is_excluded(exclude, mount_sorted.file)
             THEN filter_loop(mount, Tail(acc), exclude)
             ELSE IF starts_with(mount.file, mount_sorted.file)
                  THEN TRUE
                  ELSE filter_loop(mount, Tail(acc), exclude)

is_fake_root(file) == path_eq(file, <<"/">>)

\* a variant: the mounts at "/" are not stripped
KeepRootMounts(acc, mount, exclude) ==
    IF ~filter_loop(mount, acc, exclude) THEN Append(acc, mount) ELSE acc

\* a variant: mount is compared with the entry kept last only
OnlyLastKept(acc, mount, exclude) ==
    IF is_fake_root(mount.file) THEN acc
    ELSE IF acc = <<>> \/ ~filter_loop(mount, <<acc[Len(acc)]>>, exclude)
         THEN Append(acc, mount)
         ELSE acc

\* The body of the 'list loop (lines 233-255): the accumulator after mount.
list_body(acc, mount, exclude) ==
    IF is_fake_root(mount.file) THEN acc
    ELSE IF ~filter_loop(mount, acc, exclude) THEN Append(acc, mount) ELSE acc

\* a variant: the accumulator is returned newest first
NotReversed(acc) == acc

\* sorted.reverse(); sorted
reversed(acc) == Reverse(acc)

\* The 'list loop (lines 231-256) over list from its last entry to its first
RECURSIVE list_loop(_, _, _)
list_loop(list, acc, exclude) ==
    IF list = <<>> THEN acc
    ELSE list_loop(SubSeq(list, 1, Len(list) - 1),
                   list_body(acc, list[Len(list)], exclude), exclude)

\* One whole call: list.remove_overlaps(&exclude)
remove_overlaps(list, exclude) == reversed(list_loop(list, <<>>, exclude))

OverlapFrame == UNCHANGED <<op, written, line, stream, nb, arg, exclude_files>>

remove_overlaps_step ==
    /\ pc = "loop"
    /\ op = "remove_overlaps"
    /\ idx < Len(mounts)
    /\ sorted' = list_body(sorted, mounts[Len(mounts) - idx], exclude_files)
    /\ idx' = idx + 1
    /\ UNCHANGED <<pc, mounts, pass, first, ret>>
    /\ OverlapFrame

remove_overlaps_return ==
    /\ pc = "loop"
    /\ op = "remove_overlaps"
    /\ idx = Len(mounts)
    /\ ret' = reversed(sorted)
    /\ pc' = "done"
    /\ UNCHANGED <<mounts, idx, sorted, pass, first>>
    /\ OverlapFrame

\* The caller resolves the list it got once more, with the same exclusions.
remove_overlaps_again ==
    /\ pc = "done"
    /\ op = "remove_overlaps"
    /\ pass = 1
    /\ first' = [input |-> mounts, output |-> ret]
    /\ mounts' = ret
    /\ idx' = 0
    /\ sorted' = <<>>
    /\ pass' = 2
    /\ pc' = "loop"
    /\ UNCHANGED ret
    /\ OverlapFrame

-----------------------------------------------------------------------------
(* The lists remove_overlaps is applied to: the k-th entry is the one       *)
(* from_str gives for a line of mount id k.                                 *)

MaxMounts == 4
MaxExclude == 2

MountPaths == {<<>>, <<n_var>>, <<n_var, n_tmp>>, <<n_variant>>}
ExcludePaths == {P(<<>>), P(<<n_var>>), PSlash(<<n_var, n_tmp>>)}

\* The entry from_str gives for the line of mount id k mounted at names.
ParsedMount ==
    [k \in 1..MaxMounts, names \in MountPaths |-> from_str(MountLine(k, names)).val]

InitOverlap ==
    /\ pc = "loop"
    /\ op = "remove_overlaps"
    /\ \E ms \in SeqsUpTo(MountPaths, MaxMounts),
          xs \in SeqsUpTo(ExcludePaths, MaxExclude) :
            written = [mounts |-> ms, exclude |-> xs]
    /\ mounts = [k \in 1..Len(written.mounts) |-> ParsedMount[k, written.mounts[k]]]
    /\ exclude_files = [k \in 1..Len(written.exclude) |-> Text(written.exclude[k])]
    /\ idx = 0 /\ sorted = <<>> /\ pass = 1 /\ first = <<>>
    /\ line = <<>> /\ stream = <<>> /\ nb = 0 /\ arg = <<>>
    /\ ret = Idle

NextOverlap == remove_overlaps_step \/ remove_overlaps_return \/ remove_overlaps_again

SpecOverlap == InitOverlap /\ [][NextOverlap]_vars

-----------------------------------------------------------------------------
(* What the claims are stated with: the names the inputs were written from, *)
(* not the texts the program compares.                                      *)

\* The entries of s at the positions of K, in the order of s.
RECURSIVE SubseqAt(_, _, _)
SubseqAt(s, K, n) ==
    IF n = 0 THEN <<>>
    ELSE IF n \in K THEN Append(SubseqAt(s, K, n - 1), s[n])
    ELSE SubseqAt(s, K, n - 1)

Max(S) == CHOOSE x \in S : \A y \in S : y <= x
Min(S) == CHOOSE x \in S : \A y \in S : x <= y

\* a is b or an ancestor of b, by whole names
AncestorOrEqual(a, b) == IsPrefix(a, b)

Returned(f) == pc = "done" /\ op = f

-----------------------------------------------------------------------------
(* remove_overlaps *)

OvNames == written.mounts
OvExcluded == {written.exclude[i].names : i \in 1..Len(written.exclude)}

\* d (later than e) hides e: d is not "/", is not excluded, and is at e's
\* path or above it
Obstructs(d, e) ==
    /\ e < d
    /\ OvNames[d] # <<>>
    /\ OvNames[d] \notin OvExcluded
    /\ AncestorOrEqual(OvNames[d], OvNames[e])

Visible ==
    {e \in 1..Len(OvNames) :
        OvNames[e] # <<>> /\ ~\E d \in 1..Len(OvNames) : Obstructs(d, e)}

FirstPassDone == Returned("remove_overlaps") /\ pass = 1

\* C1: remove_overlaps(L, X) is the subsequence of L, in L's order, of the
\* entries that are not at "/" and that no later, non-root, non-excluded
\* entry of L (kept or not) is at or above.
C1_VisibleSubsequence ==
    FirstPassDone => ret = SubseqAt(mounts, Visible, Len(mounts))

\* An entry is hidden by a later entry that was itself dropped.
C1_Witness ==
    /\ FirstPassDone
    /\ \E e, d \in 1..Len(OvNames) : Obstructs(d, e) /\ d \notin Visible
    /\ Len(ret) >= 2

VarExample == << <<>>, <<n_var>>, <<n_var, n_tmp>>, <<n_var>> >>

IsVarExample == FirstPassDone /\ OvNames = VarExample /\ written.exclude = <<>>

\* C2 as claimed: "/", "/var", "/var/tmp", "/var" with no exclusion resolves
\* to the "/var/tmp" entry and the later "/var" entry, in that order.
C2_TmpAndLaterVar ==
    IsVarExample =>
        /\ ret = <<mounts[3], mounts[4]>>
        /\ ret[1].id = <<"3">> /\ ret[1].file = <<"/", "v", "a", "r", "/", "t", "m", "p">>
        /\ ret[2].id = <<"4">> /\ ret[2].file = <<"/", "v", "a", "r">>

\* C2, amended: "/", "/var", "/var/tmp", "/var" with no exclusion resolves to
\* the later "/var" entry alone: "/" is dropped, and the earlier "/var" and
\* "/var/tmp" are both shadowed by the later "/var".
C2_LaterVarOnly ==
    IsVarExample =>
        /\ ret = <<mounts[4]>>
        /\ ret[1].id = <<"4">> /\ ret[1].file = <<"/", "v", "a", "r">>

C2_Witness == IsVarExample /\ Len(ret) = 1

\* C3: remove_overlaps applied to its own output, with the same exclusion
\* list, returns that output.
C3_Idempotent ==
    (Returned("remove_overlaps") /\ pass = 2) => ret = first.output

\* The first pass dropped a shadowed entry and kept several.
C3_Witness ==
    /\ Returned("remove_overlaps") /\ pass = 2
    /\ Len(first.output) >= 2
    /\ \E e, d \in 1..Len(OvNames) : Obstructs(d, e)
    /\ written.exclude # <<>>

InOutput(e) == \E i \in 1..Len(ret) : ret[i] = mounts[e]

\* C4 as claimed: every entry whose mount point is in exclude_files is in
\* the output.
C4_ExcludedAlwaysKept ==
    FirstPassDone =>
        \A e \in 1..Len(OvNames) : OvNames[e] \in OvExcluded => InOutput(e)

\* C4, amended: an entry whose mount point is in exclude_files is in the
\* output exactly when it is not at "/" and no later non-root entry outside
\* exclude_files is at a path above it; a later entry at its own (excluded)
\* path does not hide it.
C4_ExcludedKeptUnlessShadowed ==
    FirstPassDone =>
        \A e \in 1..Len(OvNames) :
            OvNames[e] \in OvExcluded =>
                (InOutput(e) <=>
                    /\ OvNames[e] # <<>>
                    /\ ~\E d \in (e + 1)..Len(OvNames) :
                          /\ OvNames[d] # <<>>
                          /\ OvNames[d] \notin OvExcluded
                          /\ AncestorOrEqual(OvNames[d], OvNames[e]))

\* An excluded entry is kept although a later entry is at its own path.
C4_Witness ==
    /\ FirstPassDone
    /\ \E e, d \in 1..Len(OvNames) :
          /\ e < d /\ OvNames[e] = OvNames[d] /\ OvNames[e] \in OvExcluded
          /\ InOutput(e) /\ InOutput(d)

-----------------------------------------------------------------------------
(* get_mount_from, get_submounts_from *)

QItems == written.items
AllParse == \A k \in 1..Len(QItems) : QItems[k].kind = "mount"

\* The lines whose mount point is the target or above it
Enclosing ==
    {k \in 1..Len(QItems) :
        QItems[k].kind = "mount" /\ AncestorOrEqual(QItems[k].names, written.arg.names)}

\* The call returned Ok(Some(e)), e the entry of line k.
ReturnedLine(k) ==
    /\ ret.kind = "Ok" /\ Len(ret.val) = 1
    /\ ret.val[1].id = DigitText(k)
    /\ ret.val[1].file = PathText(QItems[k].names, FALSE)

HomeExample == <<Mount(<<>>), Mount(<<n_home>>)>>

\* C5: on a stream whose lines all parse, get_mount_from returns the last
\* line whose file is the target or above it, None when there is none; for
\* "/" then "/home" that is "/home" for /home/alice and "/" for /etc.
C5_LastEnclosing ==
    (Returned("get_mount_from") /\ AllParse) =>
        /\ IF Enclosing = {} THEN ret = Ok(NoneOpt) ELSE ReturnedLine(Max(Enclosing))
        /\ (QItems = HomeExample /\ written.arg = P(<<n_home, n_alice>>))
              => ret.val[1].file = <<"/", "h", "o", "m", "e">>
        /\ (QItems = HomeExample /\ written.arg = P(<<n_etc>>))
              => ret.val[1].file = <<"/">>

\* A line that encloses the target is followed by one that does not.
C5_Witness ==
    /\ Returned("get_mount_from") /\ AllParse
    /\ Cardinality(Enclosing) >= 2
    /\ Max(Enclosing) < Len(QItems)
    /\ ReturnedLine(Max(Enclosing))

Depth(k) == Len(QItems[k].names)

ReturnedDeepest ==
    \E j \in Enclosing : ReturnedLine(j) /\ \A k \in Enclosing : Depth(k) <= Depth(j)

DeeperLater ==
    \A j, k \in Enclosing : j < k => Depth(j) <= Depth(k)

Beneath ==
    {k \in 1..Len(QItems) :
        QItems[k].kind = "mount" /\ AncestorOrEqual(written.arg.names, QItems[k].names)}

IdAndFile(entries) == [i \in 1..Len(entries) |-> <<entries[i].id, entries[i].file>>]

\* C7: on a stream whose lines all parse, get_submounts_from returns the
\* entries at root or below it by whole names, each once, in stream order.
C7_SubmountsByComponents ==
    (Returned("get_submounts_from") /\ AllParse) =>
        /\ ret.kind = "Ok"
        /\ IdAndFile(ret.val) =
              SubseqAt([k \in 1..Len(QItems) |->
                            <<DigitText(k), PathText(QItems[k].names, FALSE)>>],
                       Beneath, Len(QItems))

\* Root /var and a stream with /var, /var/tmp and /variant.
C7_Witness ==
    /\ Returned("get_submounts_from") /\ AllParse
    /\ written.arg.names = <<n_var>>
    /\ {QItems[k].names : k \in 1..Len(QItems)} = {<<n_var>>, <<n_var, n_tmp>>, <<n_variant>>}
    /\ Len(ret.val) = 2

\* The lines for which the iterator yields an error
Failing == {k \in 1..Len(QItems) : QItems[k].kind \in {"truncated", "io"}}

\* The error the k-th line (index k - 1) yields
ErrorOfLine(k) ==
    IF QItems[k].kind = "io"
    THEN [desc |-> <<"Mount parsing: ", "Failed to read the mounts file: ", "io::Error">>]
    ELSE [desc |-> <<"Mount parsing: ", "Failed at line ", k - 1, ": ",
                     "Line parsing: ", "Missing field: file">>]

-----------------------------------------------------------------------------
(* from_str *)

SeparatorAt == {k \in 1..Len(written) : written[k] = Separator}

GoodNumbers ==
    /\ Len(written) >= 1 => written[1] \in GoodIds
    /\ Len(written) >= 2 => written[2] \in GoodParentIds
    /\ Len(written) >= 3 => written[3] \in GoodMajMins

\* The line stops before its last field.
TruncatedLine ==
    SeparatorAt = {} \/ Len(written) - Min(SeparatorAt) < 3

MissingField ==
    IF SeparatorAt = {}
    THEN CASE Len(written) = 0 -> "MissingId"
           [] Len(written) = 1 -> "MissingParentId"
           [] Len(written) = 2 -> "MissingMajMin"
           [] Len(written) = 3 -> "MissingRoot"
           [] Len(written) = 4 -> "MissingFile"
           [] Len(written) = 5 -> "MissingMntops"
           [] OTHER -> "MissingOptional"
    ELSE CASE Len(written) - Min(SeparatorAt) = 0 -> "MissingVfstype"
           [] Len(written) - Min(SeparatorAt) = 1 -> "MissingSpec"
           [] OTHER -> "MissingSuperOptions"

Parsed == op = "from_str" /\ pc # "start"

\* Err(LineError::Invalid*(token))
InvalidReturned(variant, tok) == Err([variant |-> variant, text |-> tok])

\* C9: a well-formed line truncated at a field boundary parses to the
\* Missing* error of its first absent field, never to an entry.
C9_MissingField ==
    (Parsed /\ GoodNumbers /\ TruncatedLine) => ret = Err(LineErr(MissingField))

\* Optional fields were read and the "-" token never came.
C9_Witness ==
    /\ Parsed /\ GoodNumbers /\ SeparatorAt = {} /\ Len(written) >= 7
    /\ ret = Err(LineErr("MissingOptional"))

\* C10: parsing never panics; a numeric token that does not parse gives the
\* Invalid* error of its field, with the token.
C10_InvalidFieldReturned ==
    Parsed =>
        /\ ret.kind # "Panic"
        /\ (Len(written) >= 1 /\ written[1] \in BadIds)
              => ret = InvalidReturned("InvalidId", written[1])
        /\ (Len(written) >= 2 /\ written[1] \in GoodIds /\ written[2] \in BadParentIds)
              => ret = InvalidReturned("InvalidParentId", written[2])
        /\ (Len(written) >= 3 /\ written[1] \in GoodIds /\ written[2] \in GoodParentIds
                /\ written[3] \in BadMajMins)
              => ret = InvalidReturned("InvalidMajMin", written[3])

\* A whole line: every field is there and every numeric token parses.
WholeLine == GoodNumbers /\ ~TruncatedLine

\* Where the "-" token stands among the written tokens.
SepIx == Min(SeparatorAt)

\* The numbers the written major:minor token names.
MajorWritten ==
    IF written[3] = <<"0", ":", "2", "0">> THEN <<"0">> ELSE <<"2", "5", "3">>

MinorWritten ==
    IF written[3] = <<"0", ":", "2", "0">> THEN <<"2", "0">>
    ELSE <<"4", "2", "9", "4", "9", "6", "7", "2", "9", "5">>

\* The options the written mntops token "rw,nosuid,foo," names, in order.
MntopsWritten ==
    << [variant |-> "Write", on |-> TRUE],
       [variant |-> "Suid", on |-> FALSE],
       [variant |-> "Extra", text |-> <<"f", "o", "o">>] >>

\* The sub-tokens of the written super_options token "rw,seclabel,rw".
SuperWritten == {<<"r", "w">>, <<"s", "e", "c", "l", "a", "b", "e", "l">>}

\* C11: a whole line, however its tokens are spaced, parses to the entry
\* whose fields are the tokens in the order id, parent_id, major:minor, root,
\* file, mntops, "-", vfstype, spec, super_options: mntops in the order
\* written, super_options as a set, spec absent exactly for "none", the
\* tokens after super_options ignored.
C11_FieldsInOrder ==
    (Parsed /\ WholeLine) =>
        /\ ret.kind = "Ok"
        /\ ret.val.id = written[1]
        /\ ret.val.parent_id = written[2]
        /\ ret.val.major = MajorWritten
        /\ ret.val.minor = MinorWritten
        /\ ret.val.root = written[4]
        /\ ret.val.file = written[5]
        /\ ret.val.mntops = MntopsWritten
        /\ ret.val.vfstype = written[SepIx + 1]
        /\ (ret.val.spec = NoneOpt) <=> (written[SepIx + 2] = <<"n", "o", "n", "e">>)
        /\ ret.val.spec # NoneOpt => ret.val.spec = SomeOpt(written[SepIx + 2])
        /\ ret.val.super_options = SuperWritten

\* A whole line laid out with tabs and runs of blanks, its spec "none", a
\* token after its super_options, parsed to an entry.
C11_Witness ==
    /\ Parsed /\ WholeLine
    /\ line # WriteLine(written, [lead |-> <<>>, sep |-> <<" ">>, trail |-> <<>>])
    /\ written[SepIx + 2] = <<"n", "o", "n", "e">>
    /\ Len(written) = SepIx + 4
    /\ written[1] = <<"-", "1">>
    /\ ret.kind = "Ok" /\ ret.val.spec = NoneOpt


\* The optional-field tokens written between mntops and "-".
OptionalsWritten == SubSeq(written, 7, SepIx - 1)

t_shared == <<"s", "h", "a", "r", "e", "d">>
t_unbindable == <<"u", "n", "b", "i", "n", "d", "a", "b", "l", "e">>

\* The tag and the value each written optional token names: "shared:2",
\* "shared:3:4" (the value is all that follows the first ":"), "unbindable".
TagWritten(tok) == IF tok = t_unbindable THEN t_unbindable ELSE t_shared

ValueWritten(tok) ==
    CASE tok = t_unbindable -> NoneOpt
      [] tok = t_shared \o <<":", "2">> -> SomeOpt(<<"2">>)
      [] OTHER -> SomeOpt(<<"3", ":", "4">>)

\* C12: with N optional tokens before "-", the optionals map has one key per
\* distinct tag, each holding what the last token of that tag names
\* (Some(value) after the first ":", None without ":"), and vfstype, spec
\* and super_options are the three tokens after "-" whatever N is.
C12_OptionalsMap ==
    (Parsed /\ WholeLine) =>
        LET opts == OptionalsWritten
            m    == ret.val.optionals
        IN  /\ ret.kind = "Ok"
            /\ DOMAIN m = {TagWritten(opts[i]) : i \in 1..Len(opts)}
            /\ \A tag \in DOMAIN m :
                  m[tag] = ValueWritten(
                      opts[Max({i \in 1..Len(opts) : TagWritten(opts[i]) = tag})])
            /\ ret.val.vfstype \in VfstypeTokens
            /\ ret.val.vfstype = written[Len(opts) + 8]
            /\ ret.val.spec \in {NoneOpt, SomeOpt(written[Len(opts) + 9])}
            /\ ret.val.super_options = SuperWritten

\* Two tokens of the tag "shared" with different values: one key, holding
\* the value of the second.
C12_Witness ==
    /\ Parsed /\ WholeLine
    /\ OptionalsWritten = <<t_shared \o <<":", "2">>, t_shared \o <<":", "3", ":", "4">>>>
    /\ ret.kind = "Ok"
    /\ DOMAIN ret.val.optionals = {t_shared}
    /\ ret.val.optionals[t_shared] = SomeOpt(<<"3", ":", "4">>)


-----------------------------------------------------------------------------
(* MountInfoIter *)

\* The k-th result given to the consumer is what line k (index k - 1) is
\* written to give: its entry, or the error of its failure with its index.
YieldedLine(k) ==
    CASE QItems[k].kind = "mount" ->
            /\ ret[k].kind = "Ok"
            /\ ret[k].val.id = DigitText(k)
            /\ ret[k].val.file = PathText(QItems[k].names, FALSE)
      [] QItems[k].kind = "bad_id" ->
            ret[k] = Err([desc |-> <<"Mount parsing: ", "Failed at line ", k - 1, ": ",
                                     "Line parsing: ", "Bad 'id' field value: ", <<"x">>>>])
      [] OTHER -> ret[k] = Err(ErrorOfLine(k))

\* While no line with an invalid numeric token has been pulled, the results
\* given are one per pulled line, in line order, and None comes after the
\* last line only; a panic is of the line pulled last, of such a token.
Iter_PulledInOrder ==
    op = "next" =>
        /\ (\A k \in 1..nb : QItems[k].kind # "bad_id")
              => /\ pc # "panic"
                 /\ Len(ret) = nb
                 /\ \A k \in 1..Len(ret) : YieldedLine(k)
                 /\ pc = "done" => nb = Len(QItems)
        /\ pc = "panic"
              => /\ QItems[nb].kind = "bad_id"
                 /\ Len(ret) = nb - 1
                 /\ \A k \in 1..Len(ret) : YieldedLine(k)

\* C13: the k-th call of next (from 0) returns the result of line k; a
\* failing line yields an error naming its index and the calls go on with
\* the next line; lines are parsed as they are pulled; None comes after the
\* last line and only then.
C13_OneResultPerLine ==
    op = "next" =>
        /\ pc # "panic"
        /\ Len(ret) = nb
        /\ \A k \in 1..Len(ret) : YieldedLine(k)
        /\ pc = "done" => nb = Len(QItems)


-----------------------------------------------------------------------------
(* get_mount_writable *)

\* The lines, read-write or read-only, whose mount point is the target or
\* above it
EnclosingMounts ==
    {k \in 1..Len(QItems) :
        /\ QItems[k].kind \in {"mount", "mount_ro"}
        /\ AncestorOrEqual(QItems[k].names, written.arg.names)}

\* get_mount finds a mount: the file opens, every line reads and parses, a
\* line encloses the target.
LookedUp == written.open /\ Failing = {} /\ EnclosingMounts # {}

-----------------------------------------------------------------------------
(* remove_overlaps and its exclusion list *)

\* The positions in mounts of the entries of out
KeptOf(out) == {e \in 1..Len(mounts) : \E j \in 1..Len(out) : out[j] = mounts[e]}

\* exclude_files with the path p added, at its end or at its front
Extended(p) == {Append(exclude_files, Text(p)), <<Text(p)>> \o exclude_files}

\* The lists a second call with a longer exclusion list is compared on
Compared == FirstPassDone /\ Len(mounts) < MaxMounts

\* C15: what remove_overlaps(L, X) keeps, remove_overlaps(L, X') keeps for
\* X' = X and one more path p; what X' keeps more was hidden by a later entry
\* at p; no entry at "/" is kept, whether "/" is in the list or not.
C15_ExclusionMonotone ==
    Compared =>
        /\ ret = remove_overlaps(mounts, exclude_files)
        /\ \A i \in 1..Len(ret) : ret[i].file # <<"/">>
        /\ \A p \in ExcludePaths : \A more \in Extended(p) :
              LET out == remove_overlaps(mounts, more)
              IN  /\ KeptOf(ret) \subseteq KeptOf(out)
                  /\ \A e \in KeptOf(out) \ KeptOf(ret) :
                        \E d \in (e + 1)..Len(OvNames) :
                            /\ OvNames[d] = p.names
                            /\ AncestorOrEqual(OvNames[d], OvNames[e])
                  /\ \A j \in 1..Len(out) : out[j].file # <<"/">>

\* "/" is in the exclusion list and an entry at "/" is in L; adding "/var"
\* to the list brings back an entry that a later "/var" hid.
C15_Witness ==
    /\ Compared
    /\ <<>> \in OvExcluded /\ \E e \in 1..Len(OvNames) : OvNames[e] = <<>>
    /\ <<n_var>> \notin OvExcluded
    /\ KeptOf(ret) # KeptOf(remove_overlaps(mounts, Append(exclude_files, Text(P(<<n_var>>)))))


=============================================================================
